---- MODULE Spec2Model ----
(***************************************************************************)
(* Model of src/app.py: the /upload pipeline (transcribe -> extract ->     *)
(* coerce -> post), the response coercion coerce_llm_json, and the Slack   *)
(* confirmation callback /slack/interact.                                  *)
(*                                                                         *)
(* Text.  A Python str is a sequence of atoms (TLA+ strings).  An atom is  *)
(* one indivisible piece of text: a punctuation character, a digit, or a   *)
(* word.  The atoms carry no backslash and no control character, so the    *)
(* JSON reader below has no escape sequences to decode.                    *)
(*                                                                         *)
(* Values.  A Python value read from JSON is a record [k, s, a, d]:        *)
(*   k in {"null","bool","num","str","list","dict"},                       *)
(*   s the atoms of a str / the digits of a num / <<"true">>, <<"false">>, *)
(*   a the items of a list, d the (key, val) pairs of a dict in insertion  *)
(*   order.                                                                *)
(***************************************************************************)
EXTENDS Integers, Sequences, FiniteSets, TLC

QUOTE  == "\""
LBRACE == "{"
RBRACE == "}"
LBRACK == "["
RBRACK == "]"
COLON  == ":"
COMMA  == ","
SP     == " "
\* the digits of the number literals; no "0", so every number read is non-zero
Digits == {"1", "2", "5"}

Mk(k, s, a, d) == [k |-> k, s |-> s, a |-> a, d |-> d]
PyNone    == Mk("null", <<>>, <<>>, <<>>)
PyTrue    == Mk("bool", <<"true">>, <<>>, <<>>)
PyFalse   == Mk("bool", <<"false">>, <<>>, <<>>)
PyNum(s)  == Mk("num", s, <<>>, <<>>)
PyStr(s)  == Mk("str", s, <<>>, <<>>)
PyList(a) == Mk("list", <<>>, a, <<>>)
PyDict(d) == Mk("dict", <<>>, <<>>, d)
KV(key, val) == [key |-> <<key>>, val |-> val]

\* isinstance(obj, dict) and key in obj
HasKey(obj, key) == obj.k = "dict" /\ \E i \in DOMAIN obj.d : obj.d[i].key = <<key>>
\* obj[key]
GetKey(obj, key) == obj.d[CHOOSE i \in DOMAIN obj.d : obj.d[i].key = <<key>>].val
\* d[key] = val on a dict under construction: a repeated key keeps its place
\* and takes the later value
DictSet(d, key, val) ==
    IF \E i \in DOMAIN d : d[i].key = key
    THEN [i \in DOMAIN d |-> IF d[i].key = key THEN [key |-> key, val |-> val] ELSE d[i]]
    ELSE Append(d, [key |-> key, val |-> val])
\* bool(v)
Truthy(v) ==
    CASE v.k = "null" -> FALSE
      [] v.k = "bool" -> v.s = <<"true">>
      [] v.k = "num"  -> TRUE
      [] v.k = "str"  -> v.s # <<>>
      [] v.k = "list" -> v.a # <<>>
      [] OTHER        -> v.d # <<>>

MinOf(S) == CHOOSE x \in S : \A y \in S : x <= y
MaxOf(S) == CHOOSE x \in S : \A y \in S : x >= y

(***************************************************************************)
(* json.loads(text): a recursive-descent reader over the atoms.            *)
(***************************************************************************)
NoParse      == [ok |-> FALSE, v |-> PyNone, i |-> 0]
Parsed(v, i) == [ok |-> TRUE, v |-> v, i |-> i]

skip_ws(t, i) == MinOf({j \in i..(Len(t) + 1) : j = Len(t) + 1 \/ t[j] # SP})

parse_string(t, i) ==
    LET S == {j \in (i + 1)..Len(t) : t[j] = QUOTE}
    IN  IF S = {} THEN NoParse
        ELSE Parsed(PyStr(SubSeq(t, i + 1, MinOf(S) - 1)), MinOf(S) + 1)

parse_number(t, i) ==
    LET j == MaxOf({m \in i..Len(t) : \A n \in i..m : t[n] \in Digits})
    IN  Parsed(PyNum(SubSeq(t, i, j)), j + 1)

RECURSIVE parse_value(_, _), parse_members(_, _, _), parse_elements(_, _, _)

parse_value(t, i0) ==
    LET i == skip_ws(t, i0)
    IN  IF i > Len(t) THEN NoParse
        ELSE IF t[i] = LBRACE THEN
            LET j == skip_ws(t, i + 1)
            IN  IF j <= Len(t) /\ t[j] = RBRACE THEN Parsed(PyDict(<<>>), j + 1)
                ELSE parse_members(t, j, <<>>)
        ELSE IF t[i] = LBRACK THEN
            LET j == skip_ws(t, i + 1)
            IN  IF j <= Len(t) /\ t[j] = RBRACK THEN Parsed(PyList(<<>>), j + 1)
                ELSE parse_elements(t, j, <<>>)
        ELSE IF t[i] = QUOTE THEN parse_string(t, i)
        ELSE IF t[i] \in Digits THEN parse_number(t, i)
        ELSE IF t[i] = "null" THEN Parsed(PyNone, i + 1)
        ELSE IF t[i] = "true" THEN Parsed(PyTrue, i + 1)
        ELSE IF t[i] = "false" THEN Parsed(PyFalse, i + 1)
        ELSE NoParse

\* the pairs of an object, from the first key at i to the closing brace
parse_members(t, i, acc) ==
    IF i > Len(t) \/ t[i] # QUOTE THEN NoParse
    ELSE LET key == parse_string(t, i)
             c   == skip_ws(t, key.i)
         IN  IF ~key.ok \/ c > Len(t) \/ t[c] # COLON THEN NoParse
             ELSE LET val == parse_value(t, c + 1)
                      e   == skip_ws(t, val.i)
                  IN  IF ~val.ok \/ e > Len(t) THEN NoParse
                      ELSE IF t[e] = COMMA
                      THEN parse_members(t, skip_ws(t, e + 1), DictSet(acc, key.v.s, val.v))
                      ELSE IF t[e] = RBRACE
                      THEN Parsed(PyDict(DictSet(acc, key.v.s, val.v)), e + 1)
                      ELSE NoParse

\* the items of an array, from the first item at i to the closing bracket
parse_elements(t, i, acc) ==
    LET val == parse_value(t, i)
        e   == skip_ws(t, val.i)
    IN  IF ~val.ok \/ e > Len(t) THEN NoParse
        ELSE IF t[e] = COMMA THEN parse_elements(t, e + 1, Append(acc, val.v))
        ELSE IF t[e] = RBRACK THEN Parsed(PyList(Append(acc, val.v)), e + 1)
        ELSE NoParse

\* json.loads: one value, then nothing but white space; ok = FALSE stands for
\* json.JSONDecodeError
json_loads(t) ==
    LET r == parse_value(t, 1)
    IN  IF r.ok /\ skip_ws(t, r.i) = Len(t) + 1 THEN r ELSE NoParse

(***************************************************************************)
(* re.search(r"\{[\s\S]*\}", raw_text): the leftmost match starts at the   *)
(* first "{" and, the star being greedy, runs to the last "}" after it.    *)
(***************************************************************************)
re_search(raw_text) ==
    LET opens  == {i \in DOMAIN raw_text : raw_text[i] = LBRACE}
        first  == MinOf(opens)
        closes == {j \in DOMAIN raw_text : raw_text[j] = RBRACE /\ j > first}
    IN  IF opens = {} THEN [found |-> FALSE, group |-> <<>>]
        ELSE IF closes = {} THEN [found |-> FALSE, group |-> <<>>]
        ELSE [found |-> TRUE, group |-> SubSeq(raw_text, first, MaxOf(closes))]

(***************************************************************************)
(* coerce_llm_json (src/app.py 87-125).  The outcome of a call is a record *)
(* [kind, mj, hs, exc, msg, calls]: kind = "return" with the pair          *)
(* (mj, hs), or kind = "raise" with the exception's type and message;      *)
(* calls counts the invocations of coerce_llm_json the call made, itself   *)
(* included.                                                               *)
(***************************************************************************)
Return2(mj, hs, calls) ==
    [kind |-> "return", mj |-> mj, hs |-> hs, exc |-> "", msg |-> <<>>, calls |-> calls]
Raise(exc, msg, calls) ==
    [kind |-> "raise", mj |-> PyNone, hs |-> PyNone, exc |-> exc, msg |-> msg, calls |-> calls]

MISSING_KEYS      == <<"missing keys in JSON response">>
\* the two fixed sentences of lines 109 and 114 (Japanese in the source)
HS_KEY_POINTS     == <<"(the key points of the meeting were extracted)">>
HS_SUMMARY        == <<"(a meeting summary was created)">>
SEPARATOR         == " / "
KEY_POINTS_LIMIT  == 6
likely_keys       == {"meeting", "summary", "actions", "next_meeting"}

\* sep.join(parts), parts a sequence of strs
RECURSIVE str_join(_)
str_join(parts) ==
    IF parts = <<>> THEN <<>>
    ELSE IF Len(parts) = 1 THEN parts[1]
    ELSE parts[1] \o <<SEPARATOR>> \o str_join(Tail(parts))

\* line 106: obj.get("summary", {}).get("key_points", []) or [], inside the
\* try of 105-108: a summary that is no dict has no .get, the AttributeError
\* is swallowed and ks keeps its initial []
key_points_of(obj) ==
    LET summary == IF HasKey(obj, "summary") THEN GetKey(obj, "summary") ELSE PyDict(<<>>)
        kp      == IF HasKey(summary, "key_points") THEN GetKey(summary, "key_points")
                   ELSE PyList(<<>>)
    IN  IF summary.k # "dict" THEN PyList(<<>>)
        ELSE IF Truthy(kp) THEN kp ELSE PyList(<<>>)

\* line 109, for a truthy ks: " / ".join(ks[:6]).  A list is sliced and its
\* items must all be str; a str is sliced and joined atom by atom; a number
\* or a bool has no slice (TypeError), nor has a dict (TypeError; KeyError
\* from Python 3.12 on).  Line 109 is outside the try of 105-108.
join_head(ks) ==
    LET n == IF KEY_POINTS_LIMIT < Len(ks.a) THEN KEY_POINTS_LIMIT ELSE Len(ks.a)
        m == IF KEY_POINTS_LIMIT < Len(ks.s) THEN KEY_POINTS_LIMIT ELSE Len(ks.s)
    IN  IF ks.k = "list" THEN
            IF \A i \in 1..n : ks.a[i].k = "str"
            THEN [ok |-> TRUE, s |-> str_join([i \in 1..n |-> ks.a[i].s])]
            ELSE [ok |-> FALSE, s |-> <<"sequence item: expected str instance">>]
        ELSE IF ks.k = "str" THEN [ok |-> TRUE, s |-> str_join([i \in 1..m |-> <<ks.s[i]>>])]
        ELSE [ok |-> FALSE, s |-> <<"object is not subscriptable">>]

\* lines 100-110: the unwrapped payload
unwrapped(obj) ==
    LET ks == key_points_of(obj)
        j  == join_head(ks)
    IN  IF ~Truthy(ks) THEN Return2(obj, PyStr(HS_KEY_POINTS), 1)
        ELSE IF j.ok THEN Return2(obj, PyStr(j.s), 1)
        ELSE Raise("TypeError", j.s, 1)

\* line 114: obj.get("human_summary") or the fixed sentence
summary_or_default(obj) ==
    LET h == IF HasKey(obj, "human_summary") THEN GetKey(obj, "human_summary") ELSE PyNone
    IN  IF Truthy(h) THEN h ELSE PyStr(HS_SUMMARY)

RECURSIVE coerce_llm_json(_, _)
coerce_llm_json(obj, raw_text) ==
    IF HasKey(obj, "machine_json") /\ HasKey(obj, "human_summary")
    THEN Return2(GetKey(obj, "machine_json"), GetKey(obj, "human_summary"), 1)
    ELSE IF HasKey(obj, "MACHINE_JSON") /\ HasKey(obj, "HUMAN_SUMMARY")
    THEN Return2(GetKey(obj, "MACHINE_JSON"), GetKey(obj, "HUMAN_SUMMARY"), 1)
    ELSE IF \E k \in likely_keys : HasKey(obj, k)
    THEN unwrapped(obj)
    ELSE IF HasKey(obj, "machine_json")
    THEN Return2(GetKey(obj, "machine_json"), summary_or_default(obj), 1)
    ELSE
        \* lines 117-123: every exception of the search, of json.loads and of
        \* the inner call is swallowed, then line 125 raises
        LET m     == re_search(raw_text)
            inner == json_loads(m.group)
            r     == coerce_llm_json(inner.v, <<>>)
        IN  IF ~m.found \/ ~inner.ok THEN Raise("ValueError", MISSING_KEYS, 1)
            ELSE IF r.kind = "return" THEN [r EXCEPT !.calls = r.calls + 1]
            ELSE Raise("ValueError", MISSING_KEYS, r.calls + 1)

(***************************************************************************)
(* Lines 319-327 of upload: from the first choice of the extraction        *)
(* response to the coerced pair.  choice = [tool_calls, arguments]:        *)
(* whether the message carries a tool call, and the text of its arguments. *)
(***************************************************************************)
tool_call_coerce(args_text, parsed) ==
    IF ~parsed.ok THEN Raise("JSONDecodeError", <<"Expecting value">>, 0)   \* line 325
    ELSE coerce_llm_json(parsed.v, args_text)                               \* line 327
tool_call_minutes(choice) ==
    IF ~choice.tool_calls \/ choice.arguments = <<>>
    THEN Raise("ValueError", <<"tool call missing">>, 0)                    \* lines 321-322
    ELSE tool_call_coerce(choice.arguments, json_loads(choice.arguments))

(***************************************************************************)
(* The responses of the extraction service the model draws from: the       *)
(* objects of the contract and their variants, written out as json.dumps   *)
(* writes them, bare or among prose.                                       *)
(***************************************************************************)
MaxKeyPoints == 2

RECURSIVE dumps(_), dumps_items(_), dumps_pairs(_)
dumps(v) ==
    CASE v.k = "null" -> <<"null">>
      [] v.k = "bool" -> v.s
      [] v.k = "num"  -> v.s
      [] v.k = "str"  -> <<QUOTE>> \o v.s \o <<QUOTE>>
      [] v.k = "list" -> <<LBRACK>> \o dumps_items(v.a) \o <<RBRACK>>
      [] OTHER        -> <<LBRACE>> \o dumps_pairs(v.d) \o <<RBRACE>>
dumps_items(a) ==
    IF a = <<>> THEN <<>>
    ELSE IF Len(a) = 1 THEN dumps(a[1])
    ELSE dumps(a[1]) \o <<COMMA, SP>> \o dumps_items(Tail(a))
dumps_pairs(d) ==
    IF d = <<>> THEN <<>>
    ELSE LET one == <<QUOTE>> \o d[1].key \o <<QUOTE, COLON, SP>> \o dumps(d[1].val)
         IN  IF Len(d) = 1 THEN one ELSE one \o <<COMMA, SP>> \o dumps_pairs(Tail(d))

SeqsUpTo(S, n) == UNION {[1..m -> S] : m \in 0..n}
Fields(key, S) == {<<>>} \cup {<<KV(key, v)>> : v \in S}

StrA == PyStr(<<"A">>)
StrB == PyStr(<<"B">>)
Entries == {StrA, StrB, PyNum(<<"1">>)}
\* one entry more than line 109 keeps
LongKeyPoints == PyList([i \in 1..(KEY_POINTS_LIMIT + 1) |-> IF i > KEY_POINTS_LIMIT THEN StrB ELSE StrA])
KeyPointsValues ==
    {PyList(a) : a \in SeqsUpTo(Entries, MaxKeyPoints)}
        \cup {LongKeyPoints, PyStr(<<"A", "B">>), PyStr(<<>>), PyNum(<<"5">>),
              PyNone, PyTrue, PyFalse, PyDict(<<>>)}
SummaryValues ==
    {PyDict(<<KV("key_points", kp)>>) : kp \in KeyPointsValues}
        \cup {PyDict(<<KV("context", StrA)>>), PyList(<<StrA>>), PyNone, StrA}
Action ==
    PyDict(<<KV("task", PyStr(<<"send report">>)),
             KV("owner", PyDict(<<KV("name", PyStr(<<"Sato">>))>>))>>)
ActionsValues == {PyList(<<>>), PyList(<<Action>>)}
RealSummary == PyStr(<<"real summary">>)

\* objects with any of the inner keys, with or without a human_summary
\* beside them; the two without any inner key are in too
InnerObjects ==
    {PyDict(m \o s \o a \o h) :
        m \in Fields("next_meeting", {PyDict(<<>>)}),
        s \in Fields("summary", SummaryValues),
        a \in Fields("actions", ActionsValues),
        h \in Fields("human_summary", {RealSummary})}

MachineValues ==
    {PyDict(<<KV("summary", PyDict(<<KV("key_points", PyList(<<StrA, StrB>>))>>)),
              KV("actions", PyList(<<Action>>))>>),
     PyDict(<<>>), PyNum(<<"1">>), PyNone}
SummaryTexts == {RealSummary, PyStr(<<>>), PyNone}
Wrappers ==
    UNION {{PyDict(<<KV("machine_json", mj), KV("human_summary", hs)>>),
            PyDict(<<KV("human_summary", hs), KV("machine_json", mj)>>),
            PyDict(<<KV("MACHINE_JSON", mj), KV("HUMAN_SUMMARY", hs)>>),
            PyDict(<<KV("machine_json", mj), KV("HUMAN_SUMMARY", hs)>>),
            PyDict(<<KV("MACHINE_JSON", mj), KV("human_summary", hs)>>),
            PyDict(<<KV("machine_json", mj)>>),
            PyDict(<<KV("MACHINE_JSON", mj)>>),
            PyDict(<<KV("machine_json", mj), KV("actions", PyList(<<>>))>>)} :
           mj \in MachineValues, hs \in SummaryTexts}
Others ==
    {PyDict(<<KV("x", PyNum(<<"1">>))>>), PyList(<<>>), PyList(<<PyDict(<<KV("actions", PyList(<<>>))>>)>>),
     StrA, PyNum(<<"2">>), PyNone, PyTrue}
Objects == InnerObjects \cup Wrappers \cup Others

\* prose around the object; the second prefix has braces of its own
Prefixes == {<<>>, <<"Here", SP, "is", SP, "the", SP, "result", COLON, SP>>, <<"see", SP, LBRACE, "note", RBRACE, SP>>}
Suffixes == {<<>>, <<SP, "thanks">>, <<SP, RBRACE>>}
NotJson  == {<<>>, <<"not", SP, "json", SP, "at", SP, "all">>, <<LBRACE>>, <<LBRACE, QUOTE, "actions", QUOTE, COLON>>}
Texts == {p \o dumps(v) \o q : p \in Prefixes, q \in Suffixes, v \in Objects} \cup NotJson

(***************************************************************************)
(* str.format (line 219).  Each "{" of the template opens a replacement    *)
(* field that runs to its matching "}"; the atom after the "{" is the      *)
(* field's name, looked up among the keyword arguments: KeyError when it   *)
(* is not one of them.  A "}" outside a field is a ValueError.             *)
(***************************************************************************)
\* lines 53-86, abridged to the atoms str.format tells apart: the JSON
\* example of lines 59-84 is written with single braces
SYSTEM_PROMPT ==
    <<"(instructions)", LBRACE, "\n  \"machine_json\"", COLON, SP, LBRACE, "(schema)", RBRACE,
      COMMA, "\n  \"human_summary\"", COLON, SP, "string", RBRACE,
      "(now)", COLON, SP, LBRACE, "NOW_ISO", RBRACE>>

\* the index of the "}" that closes the field opened at i, 0 when none does
RECURSIVE field_end(_, _, _)
field_end(t, j, depth) ==
    IF j > Len(t) THEN 0
    ELSE IF t[j] = LBRACE THEN field_end(t, j + 1, depth + 1)
    ELSE IF t[j] = RBRACE THEN (IF depth = 0 THEN j ELSE field_end(t, j + 1, depth - 1))
    ELSE field_end(t, j + 1, depth)

RECURSIVE str_format(_, _, _)
str_format(t, name, value) ==
    IF t = <<>> THEN [kind |-> "return", s |-> <<>>, exc |-> "", msg |-> <<>>]
    ELSE IF t[1] = RBRACE
    THEN [kind |-> "raise", s |-> <<>>, exc |-> "ValueError", msg |-> <<"Single '}' encountered in format string">>]
    ELSE IF t[1] = LBRACE THEN
        LET e    == field_end(t, 2, 0)
            rest == str_format(SubSeq(t, e + 1, Len(t)), name, value)
        IN  IF e = 0
            THEN [kind |-> "raise", s |-> <<>>, exc |-> "ValueError", msg |-> <<"expected '}' before end of string">>]
            ELSE IF t[2] # name
            THEN [kind |-> "raise", s |-> <<>>, exc |-> "KeyError", msg |-> <<"'", t[2], "'">>]
            ELSE IF rest.kind = "raise" THEN rest
            ELSE [rest EXCEPT !.s = value \o rest.s]
    ELSE LET rest == str_format(Tail(t), name, value)
         IN  IF rest.kind = "raise" THEN rest ELSE [rest EXCEPT !.s = <<t[1]>> \o rest.s]

\* lines 127-134
build_user_prompt(title, meeting_dt, participants, transcript_text) ==
    <<"<MEETING_META>\n", "(title): ">> \o (IF title = <<>> THEN <<"(unset)">> ELSE title)
        \o <<"\n", "(datetime): ">> \o meeting_dt
        \o <<"\n", "(participants): ">> \o participants
        \o <<"\n", "</MEETING_META>\n">>
        \o <<"\n<TRANSCRIPT>\n">> \o transcript_text \o <<"\n</TRANSCRIPT>">>

(***************************************************************************)
(* HTTP responses.  body is the JSON object returned to the caller.        *)
(***************************************************************************)
\* lines 26-30: the failure record, with a fresh correlation id
err_json_no_cid(message, detail, cid) ==
    [ok |-> FALSE, error |-> message, detail |-> detail]
err_json(message, detail, cid) ==
    [ok |-> FALSE, error |-> message, detail |-> detail, correlation_id |-> cid]

JSONResponse(status, payload) == [status |-> status, body |-> payload]

NoResponse == [status |-> 0, body |-> [ok |-> FALSE]]

PARSE_FAILED_PREFIX == <<"(failed to parse the LLM output): ">>

\* the locals of upload before any step has run
NoTranscription ==
    [kind |-> "none", has_text |-> FALSE, text |-> <<>>, segments |-> <<>>, msg |-> <<>>]
NoFrame ==
    [tr |-> NoTranscription, transcribed |-> FALSE, transcript_text |-> <<>>,
     built |-> FALSE, user_prompt |-> <<>>]

\* a step of the pipeline as the log keeps it
Step(op, ok) == [op |-> op, ok |-> ok]

(***************************************************************************)
(* upload, lines 217-327: the try block of step 2.  ex is what the         *)
(* extraction service does when called: raise, or return a first choice.   *)
(* The outcome carries the steps run, the user prompt when line 220 built  *)
(* one, and the pair or the exception.                                     *)
(***************************************************************************)
extract_outcome(sys, user_prompt, ex, c) ==
    IF sys.kind = "raise"                                                   \* line 219
    THEN [kind |-> "raise", steps |-> <<>>, built |-> FALSE, user_prompt |-> <<>>,
          mj |-> PyNone, hs |-> PyNone, msg |-> sys.msg]
    ELSE IF ex.kind = "raise"                                               \* line 308
    THEN [kind |-> "raise", steps |-> <<Step("extract", FALSE)>>, built |-> TRUE,
          user_prompt |-> user_prompt, mj |-> PyNone, hs |-> PyNone, msg |-> ex.msg]
    ELSE [kind |-> c.kind, steps |-> <<Step("extract", TRUE), Step("coerce", c.kind = "return")>>,
          built |-> TRUE, user_prompt |-> user_prompt, mj |-> c.mj, hs |-> c.hs, msg |-> c.msg]
extract_step(title, meeting_datetime_iso, participants, transcript_text, now_iso, ex) ==
    extract_outcome(str_format(SYSTEM_PROMPT, "NOW_ISO", now_iso),
                    build_user_prompt(title,
                        IF meeting_datetime_iso = <<>> THEN now_iso ELSE meeting_datetime_iso,
                        participants, transcript_text),
                    ex, tool_call_minutes(ex.choice))

\* lines 329-331: the handler of step 2's exceptions answers the request
parse_failed_no_return(msg, cid) ==
    [returns |-> FALSE,
     resp |-> JSONResponse(500, err_json("parse failed", PARSE_FAILED_PREFIX \o msg, cid))]
parse_failed(msg, cid) ==
    [returns |-> TRUE,
     resp |-> JSONResponse(500, err_json("parse failed", PARSE_FAILED_PREFIX \o msg, cid))]

\* lines 335-351: post is what the messaging sink does when called
post_step(mj, hs, post, cid) ==
    IF post = "ok"
    THEN [steps |-> <<Step("post", TRUE)>>, failed |-> FALSE,
          resp |-> JSONResponse(200, [ok |-> TRUE, slack_ts |-> <<"ts">>, machine_json |-> mj, human_summary |-> hs])]
    ELSE IF post = "SlackApiError"
    THEN [steps |-> <<Step("post", FALSE)>>, failed |-> TRUE,
          resp |-> JSONResponse(500, err_json("slack post failed", <<"(slack error)">>, cid))]
    \* any other exception reaches all_exception_handler, lines 32-35
    ELSE [steps |-> <<Step("post", FALSE)>>, failed |-> TRUE,
          resp |-> JSONResponse(500, err_json("server failed", <<"(repr of the exception)">>, cid))]

(***************************************************************************)
(* upload after its input checks, lines 202-351.  read, tr, ex and post    *)
(* are what file.read() and the three collaborators do when called.  The   *)
(* outcome: the steps run, the locals, the response, and whether a         *)
(* correlation id was drawn.                                               *)
(***************************************************************************)
upload_outcome(read, tr, frame, s2, h, s3, cid) ==
    IF read = "raise"                                                       \* line 202
    THEN [steps |-> <<>>, frame |-> NoFrame, failed |-> TRUE,
          resp |-> JSONResponse(500, err_json("server failed", <<"(repr of the exception)">>, cid))]
    ELSE IF tr.kind = "raise"                                               \* lines 210-212
    THEN [steps |-> <<Step("transcribe", FALSE)>>, frame |-> [NoFrame EXCEPT !.tr = tr], failed |-> TRUE,
          resp |-> JSONResponse(500, err_json("transcribe failed", tr.msg, cid))]
    ELSE IF s2.kind = "raise" /\ h.returns                                  \* lines 329-331
    THEN [steps |-> <<Step("transcribe", TRUE)>> \o s2.steps, frame |-> frame,
          failed |-> TRUE, resp |-> h.resp]
    ELSE [steps |-> <<Step("transcribe", TRUE)>> \o s2.steps \o s3.steps, frame |-> frame,
          failed |-> s3.failed, resp |-> s3.resp]
upload_steps(read, tr, transcript_text, s2, post, cid) ==
    upload_outcome(read, tr,
                   [tr |-> tr, transcribed |-> TRUE, transcript_text |-> transcript_text,
                    built |-> s2.built, user_prompt |-> s2.user_prompt],
                   s2, parse_failed(s2.msg, cid), post_step(s2.mj, s2.hs, post, cid), cid)
\* line 214: transcript_text = getattr(tr, "text", "") or ""
transcript_of(tr) == IF tr.has_text THEN tr.text ELSE <<>>
upload_run(r, read, tr, ex, post, now_iso, cid) ==
    upload_steps(read, tr, transcript_of(tr),
                 extract_step(r.title, r.meeting_datetime_iso, r.participants, transcript_of(tr), now_iso, ex),
                 post, cid)

(***************************************************************************)
(* slack_interact, lines 356-370.  p is the parsed payload: p.action_id is *)
(* "" when the payload names no action, p.channel and p.message_ts are ""  *)
(* when it carries none.  update is what chat_update does when called.     *)
(***************************************************************************)
CONFIRM_MINUTES == "confirm_minutes"

slack_interact_any_action(p, update, cid) ==
    IF p.channel # "" /\ p.message_ts # ""
    THEN IF update = "ok"
         THEN [updates |-> <<[channel |-> p.channel, ts |-> p.message_ts]>>, updated |-> TRUE,
               failed |-> FALSE, resp |-> JSONResponse(200, [ok |-> TRUE])]
         ELSE [updates |-> <<[channel |-> p.channel, ts |-> p.message_ts]>>, updated |-> FALSE,
               failed |-> TRUE,
               resp |-> JSONResponse(500, err_json("server failed", <<"(repr of the exception)">>, cid))]
    ELSE [updates |-> <<>>, updated |-> FALSE, failed |-> FALSE, resp |-> JSONResponse(200, [ok |-> TRUE])]

slack_interact(p, update, cid) ==
    IF p.action_id = CONFIRM_MINUTES /\ p.channel # "" /\ p.message_ts # ""
    THEN IF update = "ok"
         THEN [updates |-> <<[channel |-> p.channel, ts |-> p.message_ts]>>, updated |-> TRUE,
               failed |-> FALSE, resp |-> JSONResponse(200, [ok |-> TRUE])]
         \* chat_update raised: all_exception_handler, lines 32-35
         ELSE [updates |-> <<[channel |-> p.channel, ts |-> p.message_ts]>>, updated |-> FALSE,
               failed |-> TRUE,
               resp |-> JSONResponse(500, err_json("server failed", <<"(repr of the exception)">>, cid))]
    ELSE [updates |-> <<>>, updated |-> FALSE, failed |-> FALSE, resp |-> JSONResponse(200, [ok |-> TRUE])]

(***************************************************************************)
(* State.                                                                  *)
(*   up        the upload request in hand or last answered: its phase,     *)
(*             form fields, the steps it ran, its locals, its response     *)
(*   cb        the last confirmation callback: its payload, the update     *)
(*             calls it made, the sink's confirmed messages before it,     *)
(*             its response                                                *)
(*   confirmed the messages of the sink that an update has overwritten     *)
(*             with the confirmation notice, as (channel, ts) pairs        *)
(*   ncid      the correlation ids drawn so far                            *)
(*   handled   the requests received so far                                *)
(*   fn        a call of coerce_llm_json or of lines 319-327 on its own:   *)
(*             its arguments and, once applied, its outcome                *)
(***************************************************************************)
VARIABLES up, cb, confirmed, ncid, handled, fn
vars == <<up, cb, confirmed, ncid, handled, fn>>

MaxHandled == 3

NOW_ISO == <<"2026-01-01T09:00:00+09:00">>

Titles       == {<<>>, <<"Weekly">>}
Filenames    == {<<>>, <<"meeting.mp3">>}
ContentTypes == {<<>>, <<"audio/", "mpeg">>, <<"video/", "mp4">>, <<"text/", "plain">>}
Requests ==
    [title : Titles, meeting_datetime_iso : {<<>>}, participants : {<<"[]">>},
     filename : Filenames, content_type : ContentTypes]
NoRequest ==
    [title |-> <<>>, meeting_datetime_iso |-> <<>>, participants |-> <<>>,
     filename |-> <<>>, content_type |-> <<>>]

\* what the transcription service answers: a text, and segments or none
Segments ==
    {<<>>,
     <<[start |-> 5, text |-> <<"hello">>]>>,
     <<[start |-> 5, text |-> <<"hello">>], [start |-> 3661, text |-> <<SP>>]>>,
     <<[start |-> 3661, text |-> <<SP, "bye", SP>>], [start |-> 5, text |-> <<"hello">>]>>}
Transcriptions ==
    [kind : {"return"}, has_text : {TRUE}, text : {<<>>, <<"hello">>}, segments : Segments, msg : {<<>>}]
        \cup [kind : {"return"}, has_text : {FALSE}, text : {<<>>}, segments : {<<>>}, msg : {<<>>}]
        \cup [kind : {"raise"}, has_text : {FALSE}, text : {<<>>}, segments : {<<>>}, msg : {<<"(transcription error)">>}]

\* what the extraction service answers
Replies ==
    {<<>>, <<"not", SP, "json", SP, "at", SP, "all">>,
     dumps(PyDict(<<KV("machine_json", PyDict(<<KV("actions", PyList(<<Action>>))>>)), KV("human_summary", RealSummary)>>)),
     <<"Here", SP>> \o dumps(PyDict(<<KV("actions", PyList(<<>>))>>))}
Extractions ==
    [kind : {"return"}, choice : [tool_calls : BOOLEAN, arguments : Replies], msg : {<<>>}]
        \cup [kind : {"raise"}, choice : {[tool_calls |-> FALSE, arguments |-> <<>>]}, msg : {<<"(extraction error)">>}]
Posts == {"ok", "SlackApiError", "Exception"}


Payloads ==
    [action_id : {"", CONFIRM_MINUTES, "other_action"}, channel : {"", "C1"}, message_ts : {"", "T1", "T2"}]
NoCallback ==
    [done |-> FALSE, p |-> [action_id |-> "", channel |-> "", message_ts |-> ""],
     updates |-> <<>>, before |-> {}, resp |-> NoResponse]

NoCall ==
    [op |-> "none", obj |-> PyNone, raw_text |-> <<>>, tool_calls |-> FALSE, done |-> FALSE,
     res |-> Raise("", <<>>, 0)]
CoerceCalls ==
    {[NoCall EXCEPT !.op = "coerce", !.obj = v] : v \in Objects}
        \cup {[NoCall EXCEPT !.op = "coerce", !.obj = v, !.raw_text = dumps(v)] : v \in Objects}
        \cup {[NoCall EXCEPT !.op = "coerce", !.raw_text = t] : t \in Texts}
ToolCalls ==
    {[NoCall EXCEPT !.op = "tool_call", !.raw_text = t, !.tool_calls = b] : t \in Texts, b \in BOOLEAN}

InitServer ==
    /\ up = [phase |-> "idle", req |-> NoRequest, steps |-> <<>>, frame |-> NoFrame, resp |-> NoResponse]
    /\ cb = NoCallback
    /\ confirmed = {}
    /\ ncid = 0
    /\ handled = 0

Init == InitServer /\ fn = NoCall

\* lines 194 and 197: a file with a name and, when it states a content type,
\* one that starts with "audio/" or "video/"
input_ok(r) ==
    IF r.filename = <<>> THEN FALSE
    ELSE IF r.content_type = <<>> THEN TRUE
    ELSE r.content_type[1] \in {"audio/", "video/"}

\* a request without its file field: validation_exception_handler, lines 38-41
UploadInvalid ==
    /\ up.phase # "reading" /\ handled < MaxHandled
    /\ up' = [phase |-> "done", req |-> NoRequest, steps |-> <<>>, frame |-> NoFrame,
              resp |-> JSONResponse(422, err_json("invalid request", <<"(validation errors)">>, ncid + 1))]
    /\ ncid' = ncid + 1 /\ handled' = handled + 1
    /\ UNCHANGED <<cb, confirmed, fn>>

\* lines 194-199: the input checks turn the request down
UploadRejected ==
    /\ up.phase # "reading" /\ handled < MaxHandled
    /\ \E r \in Requests :
        /\ ~input_ok(r)
        /\ up' = [phase |-> "done", req |-> r, steps |-> <<>>, frame |-> NoFrame,
                  resp |-> IF r.filename = <<>>
                           THEN JSONResponse(400, err_json("no file", <<"(no file attached)">>, ncid + 1))
                           ELSE JSONResponse(415, err_json("unsupported type", <<"content_type=">> \o r.content_type, ncid + 1))]
    /\ ncid' = ncid + 1 /\ handled' = handled + 1
    /\ UNCHANGED <<cb, confirmed, fn>>

\* lines 194-202: the input checks pass and the handler awaits file.read()
UploadAccepted ==
    /\ up.phase # "reading" /\ handled < MaxHandled
    /\ \E r \in Requests :
        /\ input_ok(r)
        /\ up' = [phase |-> "reading", req |-> r, steps |-> <<>>, frame |-> NoFrame, resp |-> NoResponse]
    /\ handled' = handled + 1
    /\ UNCHANGED <<cb, confirmed, ncid, fn>>

\* lines 202-351, which run without another await
UploadRun ==
    /\ up.phase = "reading"
    /\ \E read \in {"ok", "raise"}, tr \in Transcriptions, ex \in Extractions, post \in Posts :
        LET o == upload_run(up.req, read, tr, ex, post, NOW_ISO, ncid + 1)
        IN  /\ up' = [phase |-> "done", req |-> up.req, steps |-> o.steps, frame |-> o.frame, resp |-> o.resp]
            /\ ncid' = IF o.failed THEN ncid + 1 ELSE ncid
    /\ UNCHANGED <<cb, confirmed, handled, fn>>

\* lines 356-370
SlackInteract ==
    /\ handled < MaxHandled
    /\ \E p \in Payloads, update \in {"ok", "SlackApiError"} :
        LET o == slack_interact(p, update, ncid + 1)
        IN  /\ cb' = [done |-> TRUE, p |-> p, updates |-> o.updates, before |-> confirmed, resp |-> o.resp]
            /\ confirmed' = IF o.updated THEN confirmed \cup {<<p.channel, p.message_ts>>} ELSE confirmed
            /\ ncid' = IF o.failed THEN ncid + 1 ELSE ncid
    /\ handled' = handled + 1
    /\ UNCHANGED <<up, fn>>

Next == UploadInvalid \/ UploadRejected \/ UploadAccepted \/ UploadRun \/ SlackInteract

Spec == Init /\ [][Next]_vars

(***************************************************************************)
(* The two functions on their own: Init draws the arguments, the actions   *)
(* apply the function.                                                     *)
(***************************************************************************)
InitCoerce == InitServer /\ fn \in CoerceCalls \cup ToolCalls

ApplyCoerce ==
    /\ fn.op = "coerce" /\ ~fn.done
    /\ fn' = [fn EXCEPT !.done = TRUE, !.res = coerce_llm_json(fn.obj, fn.raw_text)]
    /\ UNCHANGED <<up, cb, confirmed, ncid, handled>>

ApplyToolCall ==
    /\ fn.op = "tool_call" /\ ~fn.done
    /\ fn' = [fn EXCEPT !.done = TRUE,
                        !.res = tool_call_minutes([tool_calls |-> fn.tool_calls, arguments |-> fn.raw_text])]
    /\ UNCHANGED <<up, cb, confirmed, ncid, handled>>

NextCoerce == ApplyCoerce \/ ApplyToolCall

SpecCoerce == InitCoerce /\ [][NextCoerce]_vars

(***************************************************************************)
(* Properties.                                                             *)
(***************************************************************************)
StepsOf(op) == {i \in DOMAIN up.steps : up.steps[i].op = op}
FailureKeys == {"ok", "error", "detail", "correlation_id"}
IsFailureRecord(resp) ==
    /\ DOMAIN resp.body = FailureKeys
    /\ resp.body.ok = FALSE
    /\ resp.body.error # ""
    /\ resp.body.correlation_id > 0
    /\ resp.status >= 400
AllFourSucceeded ==
    up.steps = <<Step("transcribe", TRUE), Step("extract", TRUE), Step("coerce", TRUE), Step("post", TRUE)>>

\* C1: in a run of upload the messaging sink's post is called at most once,
\* and only as the fourth step, after the transcription, the extraction and
\* the coercion have succeeded in that order; when one of the three fails,
\* or the request is answered "transcribe failed" or "parse failed", no post
\* is attempted.
C1_PostOnlyAfterSuccess ==
    /\ Cardinality(StepsOf("post")) <= 1
    /\ \A i \in StepsOf("post") :
        /\ i = 4
        /\ SubSeq(up.steps, 1, 3) = <<Step("transcribe", TRUE), Step("extract", TRUE), Step("coerce", TRUE)>>
    /\ (\E i \in DOMAIN up.steps : up.steps[i].op # "post" /\ ~up.steps[i].ok) => StepsOf("post") = {}
    /\ (up.phase = "done" /\ ~up.resp.body.ok /\ up.resp.body.error \in {"transcribe failed", "parse failed"})
           => StepsOf("post") = {}

\* C1 witness: a request whose transcription succeeded and whose step 2
\* failed has been answered "parse failed", and no post was attempted.
C1_Witness ==
    /\ up.phase = "done"
    /\ up.steps = <<Step("transcribe", TRUE)>>
    /\ up.resp.body.error = "parse failed"
    /\ up.resp.body.correlation_id > 0

\* C2: an answered upload ran no step twice; it is answered either with a
\* failure record (ok = false, an error kind, a detail, a correlation id, a
\* non-success status) or with ok = true, and with ok = true only when the
\* transcription, the extraction, the coercion and the post all succeeded;
\* a request that was turned down or had a step fail is answered with the
\* failure record.
C2_FailureRecord ==
    up.phase = "done" =>
        /\ \A i, j \in DOMAIN up.steps : up.steps[i].op = up.steps[j].op => i = j
        /\ IsFailureRecord(up.resp) \/ (DOMAIN up.resp.body # FailureKeys /\ up.resp.body.ok = TRUE)
        /\ ~IsFailureRecord(up.resp) => AllFourSucceeded
        /\ ~AllFourSucceeded => IsFailureRecord(up.resp)

\* C2 witness: a transcription fault has ended the pipeline after that one
\* call, with the failure record.
C2_Witness ==
    /\ up.phase = "done"
    /\ up.steps = <<Step("transcribe", FALSE)>>
    /\ up.resp.body.error = "transcribe failed"
    /\ up.resp.body.ok = FALSE
    /\ up.resp.body.correlation_id > 0

\* C8: a callback whose action id is not the confirmation id calls no
\* update, leaves the sink's messages as they were and is answered with
\* success; a callback calls update at most once, only for the
\* confirmation id, on its own channel and message handle; an update that
\* went through leaves that message confirmed, and no callback takes a
\* message out of the confirmed state.
C8_OnlyConfirmUpdates ==
    cb.done =>
        /\ cb.p.action_id # CONFIRM_MINUTES =>
              /\ cb.updates = <<>>
              /\ confirmed = cb.before
              /\ cb.resp = JSONResponse(200, [ok |-> TRUE])
        /\ Len(cb.updates) <= 1
        /\ cb.updates # <<>> =>
              /\ cb.p.action_id = CONFIRM_MINUTES
              /\ cb.updates[1] = [channel |-> cb.p.channel, ts |-> cb.p.message_ts]
              /\ cb.resp.body.ok => <<cb.p.channel, cb.p.message_ts>> \in confirmed
        /\ cb.before \subseteq confirmed

\* C8 witness: a callback with another action id arrived for a message that
\* an earlier confirmation had confirmed.
C8_Witness ==
    /\ cb.done
    /\ cb.p.action_id = "other_action"
    /\ <<cb.p.channel, cb.p.message_ts>> \in cb.before

\* C8 second witness, the replay: the confirmation of a message already confirmed
C8_ReplayReached ==
    /\ cb.done
    /\ cb.p.action_id = CONFIRM_MINUTES
    /\ cb.updates # <<>>
    /\ <<cb.p.channel, cb.p.message_ts>> \in cb.before

(***************************************************************************)
(* The shapes and the formats the properties of the coercion speak of.     *)
(***************************************************************************)
HasBoth(v)      == HasKey(v, "machine_json") /\ HasKey(v, "human_summary")
HasBothUpper(v) == HasKey(v, "MACHINE_JSON") /\ HasKey(v, "HUMAN_SUMMARY")
HasInner(v)     == \E k \in likely_keys : HasKey(v, k)
RecognizedShape(v) == HasBoth(v) \/ HasBothUpper(v) \/ HasInner(v)
\* the object read from the span first "{" .. last "}" of the text
EmbeddedObject(raw) == IF re_search(raw).found THEN json_loads(re_search(raw).group) ELSE NoParse
KeyAtoms == likely_keys \cup {"machine_json", "human_summary", "MACHINE_JSON", "HUMAN_SUMMARY"}
Contains(whole, part) ==
    \E i \in 0..(Len(whole) - Len(part)) : SubSeq(whole, i + 1, i + Len(part)) = part
Snippet(raw) == SubSeq(raw, 1, IF Len(raw) < 200 THEN Len(raw) ELSE 200)
CoerceDone == fn.op = "coerce" /\ fn.done

\* C3: a tool-call argument text that is present and is not JSON, but holds
\* between its first "{" and last "}" an object of a recognized shape, is
\* rescued: lines 319-327 yield the pair instead of failing.
C3_RescueFromArguments ==
    (/\ fn.op = "tool_call" /\ fn.done /\ fn.tool_calls /\ fn.raw_text # <<>>
     /\ ~json_loads(fn.raw_text).ok
     /\ EmbeddedObject(fn.raw_text).ok
     /\ RecognizedShape(EmbeddedObject(fn.raw_text).v))
        => fn.res.kind = "return"

\* C4: when no recovery step yields a value the failure carries the reason
\* "missing keys in JSON response" and a prefix of the raw text of at most
\* 200 characters, and the detail surfaced to the caller shows both.
C4_FailureCarriesSnippet ==
    (CoerceDone /\ fn.res.kind = "raise" /\ fn.res.exc = "ValueError") =>
        /\ Contains(fn.res.msg, MISSING_KEYS)
        /\ Contains(fn.res.msg, Snippet(fn.raw_text))
        /\ Contains(parse_failed(fn.res.msg, 1).resp.body.detail, Snippet(fn.raw_text))

\* C5: coercion returns a pair for a mapping with both wrapper keys, with
\* both upper-cased keys, with any of the inner keys, and for a text that
\* holds such an object among prose; it fails for a text that is no JSON
\* and names none of the keys.
C5_TotalOnRecognizedShapes ==
    CoerceDone =>
        /\ RecognizedShape(fn.obj) => fn.res.kind = "return"
        /\ (EmbeddedObject(fn.raw_text).ok /\ RecognizedShape(EmbeddedObject(fn.raw_text).v))
              => fn.res.kind = "return"
        /\ (/\ fn.obj = PyNone /\ ~json_loads(fn.raw_text).ok
            /\ \A i \in DOMAIN fn.raw_text : fn.raw_text[i] \notin KeyAtoms)
              => fn.res.kind = "raise" /\ fn.res.exc = "ValueError"

\* C6: the machine_json returned is a value of the response, unchanged (the
\* parsed value, the value under its machine_json or MACHINE_JSON key, or
\* the same of the embedded object), and a response that carries a
\* human_summary gets that human_summary back, not a synthesized one.
C6_NothingInvented ==
    (CoerceDone /\ fn.res.kind = "return") =>
        LET cand == {fn.obj} \cup (IF EmbeddedObject(fn.raw_text).ok THEN {EmbeddedObject(fn.raw_text).v} ELSE {})
            taken == cand \cup {GetKey(c, "machine_json") : c \in {x \in cand : HasKey(x, "machine_json")}}
                          \cup {GetKey(c, "MACHINE_JSON") : c \in {x \in cand : HasKey(x, "MACHINE_JSON")}}
        IN  /\ fn.res.mj \in taken
            /\ \A c \in cand : HasKey(c, "human_summary") => fn.res.hs = GetKey(c, "human_summary")

\* C7: for a mapping with any of the inner keys that is no wrapper, the
\* call returns the whole value as machine_json, with the first six
\* key_points joined by " / " as human_summary, or the fixed sentence when
\* key_points is absent or empty, whatever summary and key_points hold.
IsUnwrapped(v) == HasInner(v) /\ ~HasBoth(v) /\ ~HasBothUpper(v)
KeyPointsGiven(v) ==
    HasKey(v, "summary") /\ HasKey(GetKey(v, "summary"), "key_points")
FirstSixJoined(kp) ==
    str_join([i \in 1..(IF Len(kp.a) < 6 THEN Len(kp.a) ELSE 6) |-> kp.a[i].s])
C7_UnwrappedNeverFails ==
    (CoerceDone /\ IsUnwrapped(fn.obj)) =>
        /\ fn.res.kind = "return"
        /\ fn.res.mj = fn.obj
        /\ ~KeyPointsGiven(fn.obj) => fn.res.hs = PyStr(HS_KEY_POINTS)
        /\ KeyPointsGiven(fn.obj) =>
              LET kp == GetKey(GetKey(fn.obj, "summary"), "key_points")
              IN  /\ kp = PyList(<<>>) => fn.res.hs = PyStr(HS_KEY_POINTS)
                  /\ (kp.k = "list" /\ kp.a # <<>>) => fn.res.hs = PyStr(FirstSixJoined(kp))

\* C10: every call ends with a pair or with the ValueError "missing keys in
\* JSON response", and makes at most one recursive call.
C10_ResultOrMissingKeys ==
    CoerceDone =>
        /\ fn.res.kind = "return" \/ (fn.res.exc = "ValueError" /\ fn.res.msg = MISSING_KEYS)
        /\ fn.res.calls <= 2

\* the transcript of the segments: one line "[HH:MM:SS] text" for each
\* segment whose trimmed text is not empty
DigitAtoms == <<"0", "1", "2", "3", "4", "5", "6", "7", "8", "9">>
TwoDigits(n) == <<DigitAtoms[(n \div 10) + 1], DigitAtoms[(n % 10) + 1]>>
Clock(sec) ==
    TwoDigits(sec \div 3600) \o <<COLON>> \o TwoDigits((sec % 3600) \div 60) \o <<COLON>> \o TwoDigits(sec % 60)
Trimmed(t) ==
    LET keep == {i \in DOMAIN t : t[i] # SP}
    IN  IF keep = {} THEN <<>> ELSE SubSeq(t, MinOf(keep), MaxOf(keep))
RECURSIVE SegmentLines(_)
SegmentLines(segs) ==
    IF segs = <<>> THEN <<>>
    ELSE IF Trimmed(segs[1].text) = <<>> THEN SegmentLines(Tail(segs))
    ELSE LET line == <<LBRACK>> \o Clock(segs[1].start) \o <<RBRACK, SP>> \o Trimmed(segs[1].text)
             rest == SegmentLines(Tail(segs))
         IN  IF rest = <<>> THEN line ELSE line \o <<"\n">> \o rest

\* C9: when the transcription carries segments, the transcript text of the
\* pipeline is the lines of the segments; without segments it is the plain
\* text.
C9_SegmentsFormatted ==
    up.frame.transcribed =>
        /\ up.frame.tr.segments # <<>> => up.frame.transcript_text = SegmentLines(up.frame.tr.segments)
        /\ up.frame.tr.segments = <<>> => up.frame.transcript_text = up.frame.tr.text

====
